---------------------------- MODULE Spec2Model ----------------------------
(***************************************************************************)
(* Model of the configuration-graph core of the repository:               *)
(*   src/app/interactive/page.tsx  the graph ("interactive") surface      *)
(*   src/app/workbench/page.tsx    the direct-edit ("workbench") surface  *)
(*                                                                         *)
(* One browser session shows one page, so a behaviour starts on one       *)
(* surface and stays there (React state is created when the page mounts). *)
(* Every event handler runs to completion and React commits the resulting *)
(* render before the next event, so one action is one handler together    *)
(* with the render and the effects that follow it.  The only values that  *)
(* outlive a render are the closures stored in state: the data of a node  *)
(* placed on the board keeps the callbacks of the render that placed it.  *)
(*                                                                         *)
(* Encoding.  A JavaScript number is written as its decimal text ("3.5"), *)
(* NaN as "NaN", null as "null"; JSON text of a number is the same text,  *)
(* except that NaN serialises to null.                                    *)
(***************************************************************************)
EXTENDS Integers, Sequences, FiniteSets, TLC

(***************************************************************************)
(* Bounds of the model                                                     *)
(***************************************************************************)
\* gestures and deliveries in one behaviour
MaxSteps == 6
\* config mutations (node-data edits, presets, direct edits) in one behaviour
MaxEdits == 1
\* nodes and edges of a graph handed to the validator
MaxGraphNodes == 3
MaxGraphEdges == 2
\* presets applied in a row
MaxPresets == 2

Null == "null"
NaN == "NaN"
\* the null of the artifacts state: a record, as the stored paths are
NoArtifacts == [none |-> TRUE]

Kinds == {"input", "gate", "limits", "unmatched", "evaluate"}
PresetNames == {"Strict", "Balanced", "Lenient"}
LimitKeys == {"dx", "clock", "cost"}
WeightKeys == {"dist", "clock", "depth", "size"}
PenaltyKeys == {"side", "type"}

(***************************************************************************)
(* Preset catalog and default configs                                      *)
(***************************************************************************)
PRESETS ==
  [Strict |->
     [window |-> "3.5",
      weights |-> [dist |-> "1.2", clock |-> "0.35", depth |-> "0.07", size |-> "0.03"],
      unmatched_penalty |-> "25",
      hard_limits |-> [dx |-> "3.5", clock |-> "2", cost |-> "10"]],
   Balanced |->
     [window |-> "5",
      weights |-> [dist |-> "1", clock |-> "0.3", depth |-> "0.05", size |-> "0.02"],
      unmatched_penalty |-> "20",
      hard_limits |-> [dx |-> "5", clock |-> "3", cost |-> "12"]],
   Lenient |->
     [window |-> "7",
      weights |-> [dist |-> "0.8", clock |-> "0.25", depth |-> "0.04", size |-> "0.015"],
      unmatched_penalty |-> "12",
      hard_limits |-> [dx |-> "7", clock |-> "4", cost |-> "18"]]]

\* useState<Config> initial value of the interactive surface
GraphConfig0 ==
  [window |-> "5",
   require_same_side |-> FALSE,
   weights |-> [dist |-> "1", clock |-> "0.3", depth |-> "0.05", size |-> "0.02"],
   unmatched_penalty |-> "20",
   hard_limits |-> [dx |-> "5", clock |-> "3", cost |-> "12"]]

\* useState<Config> initial value of the direct-edit surface
WorkbenchConfig0 ==
  [window |-> "5",
   require_same_side |-> FALSE,
   weights |-> [dist |-> "1", clock |-> "0.3", depth |-> "0.05", size |-> "0.02"],
   penalties |-> [side |-> "5", type |-> "2"],
   unmatched_penalty |-> "20",
   hard_limits |-> [dx |-> "5", clock |-> "3", cost |-> "12"]]

(***************************************************************************)
(* Conversions                                                             *)
(***************************************************************************)
\* parseFloat(e.target.value): an emptied input parses to NaN
parseFloat(text) == IF text = "" THEN NaN ELSE text

\* JSON text of one number: a non-finite number is written as null
NumberJSON(v) == IF v = NaN THEN Null ELSE v

\* JSON.stringify of a Config: every own key is written, numbers as NumberJSON
\* writes them, booleans as they are
stringify(c) ==
  [k \in DOMAIN c |->
     IF k = "require_same_side" THEN c[k]
     ELSE IF k \in {"weights", "penalties", "hard_limits"}
          THEN [j \in DOMAIN c[k] |-> NumberJSON(c[k][j])]
          ELSE NumberJSON(c[k])]

\* { ...a, ...b } : keys of b override, keys of a not in b are kept
Spread(a, b) ==
  [k \in (DOMAIN a) \cup (DOMAIN b) |-> IF k \in DOMAIN b THEN b[k] ELSE a[k]]

\* a ?? b
Coalesce(a, b) == IF a = Null THEN b ELSE a

(***************************************************************************)
(* State                                                                   *)
(***************************************************************************)
VARIABLES
  surface,    \* the page of this session: "interactive" or "workbench"
  config,     \* useState<Config> of the page
  configRef,  \* interactive: configRef.current
  loading,    \* useState(false): the busy flag
  warning,    \* interactive: useState<string | null>
  status,     \* interactive: useState<string | null>
  preset,     \* interactive: the selected preset name
  nodes,      \* interactive: the nodes array (placement order)
  edges,      \* interactive: the edges of the board
  usedIds,    \* interactive: useState<Set<string>>
  kpis,       \* workbench: useState<Kpis | null>
  artifacts,  \* workbench: useState<{...paths} | null>
  error,      \* workbench: useState<string | null>
  requests,   \* fetch calls dispatched and not yet settled: records [id, body]
  sent,       \* number of fetch calls dispatched so far
  response,   \* the last settled exchange handed to its continuation
  pressed,    \* the used library card the last gesture pressed, or Null
  clicks,     \* evaluate triggers pressed so far
  edits,      \* config mutations so far
  steps,      \* gestures and deliveries so far
  chain,      \* history: the Config before the presets applied in a row since
              \* the last other mutation, and the names of those presets
  server      \* the endpoint's process: the module cache entry of kpis.json,
              \* the file out/kpis.json, and the last request it served

vars == <<surface, config, configRef, loading, warning, status, preset, nodes,
          edges, usedIds, kpis, artifacts, error, requests, sent, response,
          pressed, clicks, edits, steps, chain, server>>

graphVars == <<nodes, edges, usedIds>>
resultVars == <<kpis, artifacts, error>>
netVars == <<requests, sent, response>>

\* every action is one more gesture or delivery of the behaviour
Step == steps < MaxSteps /\ steps' = steps + 1

(***************************************************************************)
(* Messages shown to the operator                                          *)
(***************************************************************************)
RemediationMessage ==
  "Add Evaluate from the library, connect Input -> Gate -> Evaluate, then run."
GenericFailure == "Evaluation failed"
Title(id) ==
  CASE id = "input" -> "Input"
    [] id = "gate" -> "Gate"
    [] id = "limits" -> "Limits"
    [] id = "unmatched" -> "Unmatched"
    [] id = "evaluate" -> "Evaluate"

(***************************************************************************)
(* Graph queries                                                           *)
(***************************************************************************)
Ids(nds) == {nds[i].id : i \in 1..Len(nds)}

\* nodes.some((n) => n.id === id)
HasNode(nds, id) == \E i \in 1..Len(nds) : nds[i].id = id

\* number of nodes of the array carrying this id
CountOf(nds, id) == Cardinality({i \in 1..Len(nds) : nds[i].id = id})

\* the data of the first node with this id
DataOf(nds, id) == nds[CHOOSE i \in 1..Len(nds) : nds[i].id = id].data

\* a validator without the third condition
isValidGraphNoEdgeToEvaluate(nds, eds) ==
  LET edgeSet == {e.source \o "->" \o e.target : e \in eds}
      hasEvaluate == HasNode(nds, "evaluate")
      hasInputGate == "input->gate" \in edgeSet
  IN  hasEvaluate /\ hasInputGate

\* The validator, on the nodes and edges its closure holds: edges are
\* keyed by the text `${source}->${target}`.
isValidGraph(nds, eds) ==
  LET edgeSet == {e.source \o "->" \o e.target : e \in eds}
      hasEvaluate == HasNode(nds, "evaluate")
      hasInputGate == "input->gate" \in edgeSet
      hasToEvaluate == \E e \in eds : e.target = "evaluate"
  IN  hasEvaluate /\ hasInputGate /\ hasToEvaluate

\* reactflow addEdge: an edge between the same handles is not added twice
addEdge(e, eds) ==
  IF e.source = Null \/ e.target = Null THEN eds
  ELSE IF \E el \in eds : /\ el.source = e.source
                          /\ el.target = e.target
                          /\ el.targetHandle = e.targetHandle
       THEN eds
       ELSE eds \cup {e}

\* handles a connection can end at: the evaluate node has three target
\* handles, gate / limits / unmatched one, input none
TargetHandles(id) ==
  CASE id = "evaluate" -> {Null, "eval-top", "eval-bottom"}
    [] id \in {"gate", "limits", "unmatched"} -> {Null}
    [] OTHER -> {}

\* nodes that carry a source handle
HasSourceHandle(id) == id \in {"input", "gate", "limits", "unmatched"}

(***************************************************************************)
(* The library of the current render                                       *)
(***************************************************************************)
EmptyData == [k \in {} |-> Null]

\* item.data of the library entry `id`, as memoised in the render whose
\* state is (cfg, nds, eds).  The evaluate entry holds onEvaluate, which
\* calls the evaluate callback of that render: it reads that render's
\* nodes and edges through isValidGraph, and configRef when it runs.  Of
\* the captured nodes only the ids are read, and only they are kept.
libraryData(id, cfg, nds, eds) ==
  CASE id = "input" -> EmptyData
    [] id = "gate" ->
         [window |-> Coalesce(cfg.window, "5"),
          requireSame |-> cfg.require_same_side]
    [] id = "limits" ->
         [dx |-> Coalesce(cfg.hard_limits.dx, "5"),
          clock |-> Coalesce(cfg.hard_limits.clock, "3"),
          cost |-> Coalesce(cfg.hard_limits.cost, "12")]
    [] id = "unmatched" -> [penalty |-> Coalesce(cfg.unmatched_penalty, "20")]
    [] id = "evaluate" ->
         [onEvaluate |-> [nodes |-> [i \in 1..Len(nds) |-> [id |-> nds[i].id]],
                          edges |-> eds]]

\* `used` of a library card
used(id) == id \in usedIds \/ HasNode(nodes, id)

\* the call-to-action text of a library card
libraryCTA(id) == IF used(id) THEN "Already placed" ELSE "Add to board"

\* nds.map((n) => n.id === id ? { ...n, data: { ...n.data, ...patch } } : n)
PatchNode(nds, id, patch) ==
  LET f(n) == IF n.id = id THEN [n EXCEPT !.data = Spread(n.data, patch)] ELSE n
  IN  [i \in 1..Len(nds) |-> f(nds[i])]

(***************************************************************************)
(* Values the operator can enter on the interactive surface                *)
(***************************************************************************)
WindowSlider == {"9"}
LimitSlider == {"6"}
PenaltySlider == {"30"}
\* target handles the operator ends a connection at
ConnectHandles == {Null, "eval-top"}
\* where a dragged card can be dropped (presentation only)
DropPositions == {<<0, 0>>}

(***************************************************************************)
(* Interactive surface: placing nodes                                      *)
(***************************************************************************)
\* the insertion of addFromLibrary: append the node, remember its id (the
\* position of a node is presentation only and is not kept in the model)
insertNode(itemId, position) ==
  /\ nodes' = Append(nodes,
                [id |-> itemId,
                 data |-> libraryData(itemId, config, nodes, edges)])
  /\ usedIds' = usedIds \cup {itemId}
  /\ UNCHANGED warning

addFromLibrary(itemId, position) ==
  IF itemId \notin Kinds
  THEN UNCHANGED <<nodes, usedIds, warning>>
  ELSE IF itemId \in usedIds \/ HasNode(nodes, itemId)
       THEN /\ warning' = Title(itemId) \o " is already on the board."
            /\ UNCHANGED <<nodes, usedIds>>
       ELSE insertNode(itemId, position)

\* a click handler of a library card that inserts whatever `used` says
LibraryClickUnchecked(itemId) ==
  /\ surface = "interactive"
  /\ Step
  /\ insertNode(itemId, Null)
  /\ pressed' = IF used(itemId) THEN itemId ELSE Null
  /\ UNCHANGED <<surface, server, chain, config, configRef, loading, status, preset, edges,
                 resultVars, netVars, clicks, edits>>

\* click on a library card: onClick={() => { if (!used) addFromLibrary(id) }}
LibraryClick(itemId) ==
  /\ surface = "interactive"
  /\ Step
  /\ IF ~used(itemId)
     THEN addFromLibrary(itemId, Null) /\ pressed' = Null
     ELSE UNCHANGED <<nodes, usedIds, warning>> /\ pressed' = itemId
  /\ UNCHANGED <<surface, server, chain, config, configRef, loading, status, preset, edges,
                 resultVars, netVars, clicks, edits>>

\* drag a library card onto the board: a used card is not draggable and its
\* onDragStart sets no id, so onDrop returns before addFromLibrary
LibraryDrop(itemId, position) ==
  /\ surface = "interactive"
  /\ Step
  /\ ~used(itemId)
  /\ addFromLibrary(itemId, position)
  /\ pressed' = Null
  /\ UNCHANGED <<surface, server, chain, config, configRef, loading, status, preset, edges,
                 resultVars, netVars, clicks, edits>>

(***************************************************************************)
(* Interactive surface: edges and removals (reactflow wiring)              *)
(***************************************************************************)
\* onConnect: a connection is drawn from a source handle to a target handle
\* of nodes on the board
onConnect(source, target, targetHandle) ==
  /\ surface = "interactive"
  /\ Step
  /\ HasNode(nodes, source) /\ HasNode(nodes, target)
  /\ HasSourceHandle(source)
  /\ targetHandle \in TargetHandles(target)
  /\ LET params == [source |-> source, target |-> target,
                    targetHandle |-> targetHandle]
     IN  edges' = addEdge(params, edges)
  /\ pressed' = Null
  /\ UNCHANGED <<surface, server, chain, config, configRef, loading, warning, status, preset,
                 nodes, usedIds, resultVars, netVars, clicks, edits>>

\* a deletion that puts the Config back to its defaults
removeNodeResetsConfig(id) ==
  /\ surface = "interactive"
  /\ Step
  /\ HasNode(nodes, id)
  /\ nodes' = SelectSeq(nodes, LAMBDA n : n.id # id)
  /\ edges' = {e \in edges : e.source # id /\ e.target # id}
  /\ config' = GraphConfig0
  /\ configRef' = config'
  /\ pressed' = Null
  /\ UNCHANGED <<surface, server, chain, loading, warning, status, preset, usedIds,
                 resultVars, netVars, clicks, edits>>

\* a deletion that leaves the edges of the node on the board
removeNodeKeepsEdges(id) ==
  /\ surface = "interactive"
  /\ Step
  /\ HasNode(nodes, id)
  /\ nodes' = SelectSeq(nodes, LAMBDA n : n.id # id)
  /\ pressed' = Null
  /\ UNCHANGED <<surface, server, chain, config, configRef, loading, warning, status,
                 preset, edges, usedIds, resultVars, netVars, clicks, edits>>

\* onNodesChange / onEdgesChange with remove changes: deleting a node of the
\* board also removes the edges connected to it
removeNode(id) ==
  /\ surface = "interactive"
  /\ Step
  /\ HasNode(nodes, id)
  /\ nodes' = SelectSeq(nodes, LAMBDA n : n.id # id)
  /\ edges' = {e \in edges : e.source # id /\ e.target # id}
  /\ pressed' = Null
  /\ UNCHANGED <<surface, server, chain, config, configRef, loading, warning, status, preset,
                 usedIds, resultVars, netVars, clicks, edits>>

\* onEdgesChange with a remove change for a selected edge
removeEdge(e) ==
  /\ surface = "interactive"
  /\ Step
  /\ e \in edges
  /\ edges' = edges \ {e}
  /\ pressed' = Null
  /\ UNCHANGED <<surface, server, chain, config, configRef, loading, warning, status, preset,
                 nodes, usedIds, resultVars, netVars, clicks, edits>>

(***************************************************************************)
(* Interactive surface: node controls and presets                          *)
(***************************************************************************)
\* the frame of a config mutation of the interactive surface; the effect
\* that follows the render copies the new config into configRef
EditFrame ==
  /\ edits' = edits + 1
  /\ configRef' = config'
  /\ chain' = [base |-> config', names |-> <<>>]
  /\ pressed' = Null
  /\ UNCHANGED <<surface, server, loading, warning, status, preset, edges, usedIds,
                 resultVars, netVars, clicks>>

\* gate node, window slider
onChangeWindow(v) ==
  /\ surface = "interactive"
  /\ Step
  /\ edits < MaxEdits
  /\ HasNode(nodes, "gate")
  /\ v # DataOf(nodes, "gate").window
  /\ config' = Spread(config, [window |-> v])
  /\ nodes' = PatchNode(nodes, "gate", [window |-> v])
  /\ EditFrame

\* gate node, same-side checkbox
onChangeSame(v) ==
  /\ surface = "interactive"
  /\ Step
  /\ edits < MaxEdits
  /\ HasNode(nodes, "gate")
  /\ v # DataOf(nodes, "gate").requireSame
  /\ config' = Spread(config, [require_same_side |-> v])
  /\ nodes' = PatchNode(nodes, "gate", [requireSame |-> v])
  /\ EditFrame

\* a limits slider that stores the moved cap alone
onChangeLimitReplaces(k, v) ==
  /\ surface = "interactive"
  /\ Step
  /\ edits < MaxEdits
  /\ HasNode(nodes, "limits")
  /\ v # DataOf(nodes, "limits")[k]
  /\ config' = Spread(config, [hard_limits |-> [j \in {k} |-> v]])
  /\ nodes' = PatchNode(nodes, "limits", [j \in {k} |-> v])
  /\ EditFrame

\* limits node, one of the three sliders
onChangeLimit(k, v) ==
  /\ surface = "interactive"
  /\ Step
  /\ edits < MaxEdits
  /\ HasNode(nodes, "limits")
  /\ v # DataOf(nodes, "limits")[k]
  /\ config' = Spread(config,
                 [hard_limits |-> Spread(config.hard_limits, [j \in {k} |-> v])])
  /\ nodes' = PatchNode(nodes, "limits", [j \in {k} |-> v])
  /\ EditFrame

\* unmatched node, penalty slider
onChangePenalty(v) ==
  /\ surface = "interactive"
  /\ Step
  /\ edits < MaxEdits
  /\ HasNode(nodes, "unmatched")
  /\ v # DataOf(nodes, "unmatched").penalty
  /\ config' = Spread(config, [unmatched_penalty |-> v])
  /\ nodes' = PatchNode(nodes, "unmatched", [penalty |-> v])
  /\ EditFrame

\* a merge in which the current weights and caps win over the bundle's
presetConfigCurrentWins(c, p) ==
  Spread(Spread(c, p),
         [weights |-> Spread(p.weights, c.weights),
          hard_limits |-> Spread(p.hard_limits, c.hard_limits)])

\* a merge of the bundle into the default Config
presetConfigFromDefaults(c, p) ==
  Spread(Spread(GraphConfig0, p),
         [weights |-> Spread(GraphConfig0.weights, p.weights),
          hard_limits |-> Spread(GraphConfig0.hard_limits, p.hard_limits)])

\* the Config applyPreset stores: { ...c, ...p, weights: { ...c.weights,
\* ...p.weights }, hard_limits: { ...c.hard_limits, ...p.hard_limits } }
presetConfig(c, p) ==
  Spread(Spread(c, p),
         [weights |-> Spread(c.weights, p.weights),
          hard_limits |-> Spread(c.hard_limits, p.hard_limits)])

\* a preset that leaves the nodes as they are
presetNodesNone(nds, p) == nds

\* the nodes applyPreset stores: the bundle's values are copied into the data
\* of the gate, limits and unmatched nodes
presetNodes(nds, p) ==
  LET f(n) ==
        LET data == n.data
        IN  IF n.id = "gate"
            THEN [n EXCEPT !.data =
                    Spread(data, [window |-> Coalesce(p.window, data.window),
                                  requireSame |-> data.requireSame])]
            ELSE IF n.id = "limits"
            THEN [n EXCEPT !.data =
                    Spread(data, [dx |-> Coalesce(p.hard_limits.dx, data.dx),
                                  clock |-> Coalesce(p.hard_limits.clock, data.clock),
                                  cost |-> Coalesce(p.hard_limits.cost, data.cost)])]
            ELSE IF n.id = "unmatched"
            THEN [n EXCEPT !.data =
                    Spread(data, [penalty |-> Coalesce(p.unmatched_penalty,
                                                       data.penalty)])]
            ELSE n
  IN  [i \in 1..Len(nds) |-> f(nds[i])]

\* the preset select: its onChange fires when another option is chosen
applyPreset(name) ==
  /\ surface = "interactive"
  /\ Step
  /\ name # preset
  /\ edits < MaxEdits
  /\ edits' = edits + 1
  /\ preset' = name
  /\ config' = presetConfig(config, PRESETS[name])
  /\ nodes' = presetNodes(nodes, PRESETS[name])
  /\ configRef' = config'
  /\ chain' = [chain EXCEPT !.names = Append(@, name)]
  /\ pressed' = Null
  /\ UNCHANGED <<surface, server, loading, warning, status, edges, usedIds,
                 resultVars, netVars, clicks>>

(***************************************************************************)
(* Interactive surface: the evaluate trigger                               *)
(***************************************************************************)
\* the fetch of an evaluation: the body is serialised when the call is made
dispatch(body) ==
  /\ requests' = requests \cup {[id |-> sent + 1, body |-> body]}
  /\ sent' = sent + 1
  /\ UNCHANGED response

\* evaluate without the early return of a rejected graph
evaluateNoReturn(closure) ==
  /\ warning' = Null
  /\ status' = "Running..."
  /\ loading' = TRUE
  /\ dispatch(stringify(configRef))

\* the evaluate callback of the render `closure` was taken from, up to its
\* first await
evaluate(closure) ==
  IF ~isValidGraph(closure.nodes, closure.edges)
  THEN /\ warning' = RemediationMessage
       /\ status' = Null
       /\ UNCHANGED <<loading, netVars>>
  ELSE /\ warning' = Null
       /\ status' = "Running..."
       /\ loading' = TRUE
       /\ dispatch(stringify(configRef))

\* the evaluate node's Run button calls the onEvaluate its data holds
EvaluateNodeRun ==
  /\ surface = "interactive"
  /\ Step
  /\ HasNode(nodes, "evaluate")
  /\ clicks' = clicks + 1
  /\ evaluate(DataOf(nodes, "evaluate").onEvaluate)
  /\ pressed' = Null
  /\ UNCHANGED <<surface, server, chain, config, configRef, preset, graphVars, resultVars, edits>>

(***************************************************************************)
(* Direct-edit surface                                                     *)
(***************************************************************************)
\* texts the operator can leave in a number input
InputTexts == {"", "7"}

updateConfig(patch) == config' = Spread(config, patch)

updateNested(key, patch) ==
  config' = Spread(config, [j \in {key} |-> Spread(config[key], patch)])

DirectFrame ==
  /\ edits' = edits + 1
  /\ config' # config
  /\ chain' = [base |-> config', names |-> <<>>]
  /\ pressed' = Null
  /\ UNCHANGED <<surface, server, configRef, loading, warning, status, preset,
                 graphVars, resultVars, netVars, clicks>>

\* the number inputs of window and unmatched_penalty
DirectEditNumber(key, text) ==
  /\ surface = "workbench"
  /\ Step
  /\ edits < MaxEdits
  /\ key \in {"window", "unmatched_penalty"}
  /\ updateConfig([j \in {key} |-> parseFloat(text)])
  /\ DirectFrame

\* the require_same_side checkbox
DirectEditSameSide ==
  /\ surface = "workbench"
  /\ Step
  /\ edits < MaxEdits
  /\ updateConfig([require_same_side |-> ~config.require_same_side])
  /\ DirectFrame

\* the rows of weights, penalties and hard_limits
DirectEditNested(key, k, text) ==
  /\ surface = "workbench"
  /\ Step
  /\ edits < MaxEdits
  /\ key \in {"weights", "penalties", "hard_limits"}
  /\ k \in DOMAIN config[key]
  /\ updateNested(key, [j \in {k} |-> parseFloat(text)])
  /\ DirectFrame

\* a run that refuses a Config whose window is no number
runChecksConfig ==
  IF config.window = NaN
  THEN UNCHANGED <<loading, error, netVars>>
  ELSE /\ loading' = TRUE
       /\ error' = Null
       /\ dispatch(stringify(config))

\* a run that leaves the busy flag down
runNoBusy ==
  /\ UNCHANGED loading
  /\ error' = Null
  /\ dispatch(stringify(config))

\* run, up to its first await
run ==
  /\ loading' = TRUE
  /\ error' = Null
  /\ dispatch(stringify(config))

\* a button that ignores the busy flag
WorkbenchButtonNotDisabled ==
  /\ surface = "workbench"
  /\ Step
  /\ clicks' = clicks + 1
  /\ run
  /\ pressed' = Null
  /\ UNCHANGED <<surface, server, chain, config, configRef, warning, status, preset,
                 graphVars, kpis, artifacts, edits>>

\* the Evaluate graph button: <button onClick={run} disabled={loading}>
\* a press of the disabled button reaches no handler
WorkbenchButton ==
  /\ surface = "workbench"
  /\ Step
  /\ clicks' = clicks + 1
  /\ IF loading
     THEN UNCHANGED <<loading, error, netVars>>
     ELSE run
  /\ pressed' = Null
  /\ UNCHANGED <<surface, server, chain, config, configRef, warning, status, preset,
                 graphVars, kpis, artifacts, edits>>

(***************************************************************************)
(* The exchange with the engine                                            *)
(***************************************************************************)
\* well-formed result payloads
Payloads ==
  {[kpis |-> "kpisA", matches_path |-> "/a/out/matches.csv",
    families_path |-> "/a/out/families.csv",
    segment_risk_path |-> "/a/out/segment_risk.csv"],
   [kpis |-> "kpisB", matches_path |-> "/b/out/matches.csv",
    families_path |-> "/b/out/families.csv",
    segment_risk_path |-> "/b/out/segment_risk.csv"]}

\* how a fetch can settle: a success status with a well-formed payload, a
\* non-success status with a body text, a success status whose body does not
\* parse, a rejected fetch
Outcomes ==
  {[kind |-> "ok", data |-> p] : p \in Payloads}
  \cup {[kind |-> "status", text |-> t] : t \in {"bad weights", ""}}
  \cup {[kind |-> "unparseable"]}
  \cup {[kind |-> "transport"]}

\* no exchange has settled yet
NoResponse == [id |-> 0, outcome |-> [kind |-> "none"]]

\* the messages of the errors the runtime throws
SyntaxErrorMessage == "Unexpected token < in JSON at position 0"
FetchErrorMessage == "Failed to fetch"

\* e.message of what the try block throws
thrownMessage(out) ==
  CASE out.kind = "status" -> out.text
    [] out.kind = "unparseable" -> SyntaxErrorMessage
    [] out.kind = "transport" -> FetchErrorMessage

\* a handler that shows the generic text whenever no body text came back
failureMessageBodyOrGeneric(out) ==
  IF out.kind = "status" /\ out.text # "" THEN out.text ELSE GenericFailure

\* a handler that always shows the generic text
failureMessageGeneric(out) == GenericFailure

\* e.message || "Evaluation failed"
failureMessage(out) ==
  IF thrownMessage(out) = "" THEN GenericFailure ELSE thrownMessage(out)

\* a continuation that keeps the result of the first evaluation
runContinuationKeepsFirst(out) ==
  /\ IF out.kind = "ok"
     THEN /\ kpis' = IF kpis = Null THEN out.data.kpis ELSE kpis
          /\ artifacts' =
               IF kpis = Null
               THEN [matches_path |-> out.data.matches_path,
                     families_path |-> out.data.families_path,
                     segment_risk_path |-> out.data.segment_risk_path]
               ELSE artifacts
          /\ UNCHANGED error
     ELSE /\ error' = failureMessage(out)
          /\ UNCHANGED <<kpis, artifacts>>
  /\ loading' = FALSE
  /\ UNCHANGED <<warning, status>>

\* a continuation that drops the stored result when the attempt fails
runContinuationClearsOnFailure(out) ==
  /\ IF out.kind = "ok"
     THEN /\ kpis' = out.data.kpis
          /\ artifacts' = [matches_path |-> out.data.matches_path,
                           families_path |-> out.data.families_path,
                           segment_risk_path |-> out.data.segment_risk_path]
          /\ UNCHANGED error
     ELSE /\ error' = failureMessage(out)
          /\ kpis' = Null
          /\ artifacts' = NoArtifacts
  /\ loading' = FALSE
  /\ UNCHANGED <<warning, status>>

\* a continuation without the finally block: a thrown transport error
\* leaves the busy flag up
runContinuationNoFinally(out) ==
  /\ IF out.kind = "ok"
     THEN /\ kpis' = out.data.kpis
          /\ artifacts' = [matches_path |-> out.data.matches_path,
                           families_path |-> out.data.families_path,
                           segment_risk_path |-> out.data.segment_risk_path]
          /\ UNCHANGED error
     ELSE /\ error' = failureMessage(out)
          /\ UNCHANGED <<kpis, artifacts>>
  /\ loading' = (out.kind = "transport")
  /\ UNCHANGED <<warning, status>>

\* the rest of run, after the fetch settled with `out`
runContinuation(out) ==
  /\ IF out.kind = "ok"
     THEN /\ kpis' = out.data.kpis
          /\ artifacts' = [matches_path |-> out.data.matches_path,
                           families_path |-> out.data.families_path,
                           segment_risk_path |-> out.data.segment_risk_path]
          /\ UNCHANGED error
     ELSE /\ error' = failureMessage(out)
          /\ UNCHANGED <<kpis, artifacts>>
  /\ loading' = FALSE
  /\ UNCHANGED <<warning, status>>

\* the rest of evaluate, after the fetch settled with `out`
evaluateContinuation(out) ==
  /\ IF out.kind = "ok"
     THEN /\ status' = "Evaluation succeeded"
          /\ UNCHANGED warning
     ELSE /\ warning' = failureMessage(out)
          /\ status' = "Evaluation failed"
  /\ loading' = FALSE
  /\ UNCHANGED resultVars

\* a settlement that sends the request again after a failure
SettleRetries(r, out) ==
  /\ Step
  /\ r \in requests
  /\ response' = [id |-> r.id, outcome |-> out]
  /\ IF out.kind = "ok"
     THEN /\ requests' = requests \ {r}
          /\ UNCHANGED sent
          /\ IF surface = "workbench"
             THEN runContinuation(out)
             ELSE evaluateContinuation(out)
     ELSE /\ sent' = sent + 1
          /\ requests' = (requests \ {r}) \cup {[id |-> sent', body |-> r.body]}
          /\ UNCHANGED <<loading, warning, status, resultVars>>
  /\ pressed' = Null
  /\ UNCHANGED <<surface, server, chain, config, configRef, preset, graphVars, clicks,
                 edits>>

\* a pending fetch settles and the handler that awaits it runs to its end
Settle(r, out) ==
  /\ Step
  /\ r \in requests
  /\ requests' = requests \ {r}
  /\ response' = [id |-> r.id, outcome |-> out]
  /\ IF surface = "workbench"
     THEN runContinuation(out)
     ELSE evaluateContinuation(out)
  /\ pressed' = Null
  /\ UNCHANGED <<surface, server, chain, config, configRef, preset, graphVars, sent, clicks,
                 edits>>

(***************************************************************************)
(* The evaluation endpoint: POST of src/app/page.tsx                        *)
(***************************************************************************)
\* process.cwd() of the server
projectRoot == "/app"

\* the server before its first request: kpis.json neither written nor loaded
ServerStart == [cache |-> Null, file |-> Null, last |-> [none |-> TRUE]]

\* request bodies: the JSON text of a Config, or text that is no JSON
RequestBodies ==
  {[kind |-> "json", body |-> stringify(WorkbenchConfig0)], [kind |-> "text"]}

\* req.json().catch(() => ({}))
reqJson(req) == IF req.kind = "json" THEN req.body ELSE <<>>

\* what spawnSync returns: error holds result.error.message when the process
\* could not be started, status is the exit status, Null after a signal
SpawnResults ==
  {[error |-> m, status |-> Null, stderr |-> Null] :
     m \in {"spawnSync python3 ENOENT", "spawnSync python3 EACCES"}}
  \cup {[error |-> Null, status |-> s, stderr |-> t] :
          s \in {"0", "1", "2", Null},
          t \in {"", "ValueError: bad weights"}}

\* what a run of the engine leaves in out/kpis.json: Null when it writes none
EngineWrites == {Null, "kpisA", "kpisB"}

\* require(path): the cached module when there is one, the file otherwise;
\* Null stands for the throw when there is neither
require(cache, file) == IF cache # Null THEN cache ELSE file

\* a || b on strings
OrElse(a, b) == IF a = "" \/ a = Null THEN b ELSE a

\* the reply of the framework to a handler that threw
UncaughtReply == [status |-> 500, body |-> [thrown |-> TRUE]]

\* a handler that does not look at the exit status
POSTResponseIgnoresStatus(result, kpisModule) ==
  IF result.error # Null
  THEN [status |-> 500, body |-> [error |-> result.error]]
  ELSE IF kpisModule = Null
  THEN UncaughtReply
  ELSE [status |-> 200,
        body |-> [kpis |-> kpisModule,
                  families_path |-> <<projectRoot, "out", "families.csv">>,
                  segment_risk_path |-> <<projectRoot, "out", "segment_risk.csv">>,
                  matches_path |-> <<projectRoot, "out", "matches.csv">>]]

\* the response of POST to the result of spawnSync; kpisModule is what
\* require of out/kpis.json gives when the handler gets that far
POSTResponse(result, kpisModule) ==
  IF result.error # Null
  THEN [status |-> 500, body |-> [error |-> result.error]]
  ELSE IF result.status # "0"
  THEN [status |-> 500, body |-> [error |-> OrElse(result.stderr, GenericFailure)]]
  ELSE IF kpisModule = Null
  THEN UncaughtReply
  ELSE [status |-> 200,
        body |-> [kpis |-> kpisModule,
                  families_path |-> <<projectRoot, "out", "families.csv">>,
                  segment_risk_path |-> <<projectRoot, "out", "segment_risk.csv">>,
                  matches_path |-> <<projectRoot, "out", "matches.csv">>]]

\* one request: the body is read, the engine runs (or cannot be started) and
\* may write out/kpis.json, and the handler answers
POST(req, result, wrote) ==
  LET env == [CONFIG_JSON |-> stringify(reqJson(req))]
      file == IF result.error = Null /\ wrote # Null THEN wrote ELSE server.file
      loads == result.error = Null /\ result.status = "0"
      kpisModule == require(server.cache, file)
  IN  /\ server' = [cache |-> IF loads THEN kpisModule ELSE server.cache,
                    file |-> file,
                    last |-> [req |-> req, env |-> env, result |-> result,
                              reply |-> POSTResponse(result, kpisModule)]]
      /\ UNCHANGED <<surface, chain, config, configRef, loading, warning, status,
                     preset, graphVars, resultVars, netVars, pressed, clicks,
                     edits, steps>>

(***************************************************************************)
(* Specification                                                           *)
(***************************************************************************)
Init ==
  /\ surface \in {"interactive", "workbench"}
  /\ config = IF surface = "interactive" THEN GraphConfig0 ELSE WorkbenchConfig0
  /\ configRef = config
  /\ loading = FALSE
  /\ warning = Null
  /\ status = Null
  /\ preset = "Balanced"
  /\ nodes = <<>>
  /\ edges = {}
  /\ usedIds = {}
  /\ kpis = Null
  /\ artifacts = NoArtifacts
  /\ error = Null
  /\ requests = {}
  /\ sent = 0
  /\ response = NoResponse
  /\ pressed = Null
  /\ clicks = 0
  /\ edits = 0
  /\ steps = 0
  /\ chain = [base |-> config, names |-> <<>>]
  /\ server = ServerStart

Next ==
  \/ \E id \in Kinds : LibraryClick(id)
  \/ \E id \in Kinds, p \in DropPositions : LibraryDrop(id, p)
  \/ \E s \in Kinds, t \in Kinds, h \in ConnectHandles :
        onConnect(s, t, h)
  \/ \E id \in Kinds : removeNode(id)
  \/ \E e \in edges : removeEdge(e)
  \/ \E v \in WindowSlider : onChangeWindow(v)
  \/ \E v \in BOOLEAN : onChangeSame(v)
  \/ \E k \in LimitKeys, v \in LimitSlider : onChangeLimit(k, v)
  \/ \E v \in PenaltySlider : onChangePenalty(v)
  \/ \E name \in PresetNames : applyPreset(name)
  \/ EvaluateNodeRun
  \/ \E key \in {"window", "unmatched_penalty"}, text \in InputTexts :
        DirectEditNumber(key, text)
  \/ DirectEditSameSide
  \/ \E key \in {"weights", "penalties", "hard_limits"},
        k \in WeightKeys \cup PenaltyKeys \cup LimitKeys, text \in InputTexts :
        DirectEditNested(key, k, text)
  \/ WorkbenchButton
  \/ \E r \in requests, out \in Outcomes : Settle(r, out)

Spec == Init /\ [][Next]_vars

\* the endpoint alone, serving one request after another
InitEndpoint ==
  /\ Init
  /\ surface = "workbench"

NextEndpoint ==
  \E req \in RequestBodies, result \in SpawnResults, wrote \in EngineWrites :
     POST(req, result, wrote)

SpecEndpoint == InitEndpoint /\ [][NextEndpoint]_vars

(***************************************************************************)
(* The validator on arbitrary graphs                                       *)
(*                                                                         *)
(* isValidGraph reads whatever nodes and edges its render holds.  This     *)
(* specification builds every graph over the five kinds within the bounds  *)
(* (edges may end at kinds that are not on the board) and then calls the   *)
(* evaluate callback of the render that holds that graph.                  *)
(***************************************************************************)
InitValidator == Init /\ surface = "interactive"

GraphFrame ==
  /\ clicks = 0
  /\ UNCHANGED <<surface, server, chain, config, configRef, loading, warning, status, preset,
                 usedIds, resultVars, netVars, pressed, clicks, edits, steps>>

GraphAddNode(k) ==
  /\ GraphFrame
  /\ ~HasNode(nodes, k)
  /\ Len(nodes) < MaxGraphNodes
  /\ nodes' = Append(nodes, [id |-> k, data |-> EmptyData])
  /\ UNCHANGED edges

GraphRemoveNode(k) ==
  /\ GraphFrame
  /\ HasNode(nodes, k)
  /\ nodes' = SelectSeq(nodes, LAMBDA n : n.id # k)
  /\ UNCHANGED edges

GraphAddEdge(s, t) ==
  /\ GraphFrame
  /\ Cardinality(edges) < MaxGraphEdges
  /\ [source |-> s, target |-> t, targetHandle |-> Null] \notin edges
  /\ edges' = edges \cup {[source |-> s, target |-> t, targetHandle |-> Null]}
  /\ UNCHANGED nodes

GraphRemoveEdge(e) ==
  /\ GraphFrame
  /\ e \in edges
  /\ edges' = edges \ {e}
  /\ UNCHANGED nodes

\* evaluate() of the render that holds the graph
ValidatorProbe ==
  /\ clicks = 0
  /\ clicks' = 1
  /\ evaluate([nodes |-> nodes, edges |-> edges])
  /\ UNCHANGED <<surface, server, chain, config, configRef, preset, graphVars, resultVars,
                 pressed, edits, steps>>

NextValidator ==
  \/ \E k \in Kinds : GraphAddNode(k)
  \/ \E k \in Kinds : GraphRemoveNode(k)
  \/ \E s \in Kinds, t \in Kinds : GraphAddEdge(s, t)
  \/ \E e \in edges : GraphRemoveEdge(e)
  \/ ValidatorProbe

SpecValidator == InitValidator /\ [][NextValidator]_vars

(***************************************************************************)
(* Presets applied in a row                                                *)
(*                                                                         *)
(* applyPreset is a function of the current Config, the current nodes and  *)
(* the bundle.  This specification starts from boards whose controls were  *)
(* set to values of the input sets (every kind placed, input->gate and     *)
(* gate->evaluate connected) and applies presets one after the other.      *)
(***************************************************************************)
\* Configs the controls of the nodes can have produced
PresetInputs ==
  {[GraphConfig0 EXCEPT !.window = w,
                        !.require_same_side = r,
                        !.unmatched_penalty = u,
                        !.hard_limits = [dx |-> d, clock |-> "3", cost |-> c]] :
     w \in {"5", "9"}, r \in BOOLEAN, u \in {"20", "30"},
     d \in {"5", "6"}, c \in {"12", "6"}}

\* the board after the five cards were placed and the controls set to cfg
Board(cfg) ==
  LET place(nds, id) ==
        Append(nds, [id |-> id, data |-> libraryData(id, cfg, nds, {})])
  IN  place(place(place(place(place(<<>>, "gate"), "limits"), "unmatched"),
                  "input"), "evaluate")

InitPreset ==
  /\ surface = "interactive"
  /\ config \in PresetInputs
  /\ configRef = config
  /\ loading = FALSE
  /\ warning = Null
  /\ status = Null
  /\ preset = "Balanced"
  /\ nodes = Board(config)
  /\ edges = {[source |-> "input", target |-> "gate", targetHandle |-> Null],
              [source |-> "gate", target |-> "evaluate", targetHandle |-> Null]}
  /\ usedIds = Kinds
  /\ kpis = Null
  /\ artifacts = NoArtifacts
  /\ error = Null
  /\ requests = {}
  /\ sent = 0
  /\ response = NoResponse
  /\ pressed = Null
  /\ clicks = 0
  /\ edits = 0
  /\ steps = 0
  /\ chain = [base |-> config, names |-> <<>>]
  /\ server = ServerStart

\* the preset select, once more
PresetChain(name) ==
  /\ name # preset
  /\ Len(chain.names) < MaxPresets
  /\ preset' = name
  /\ config' = presetConfig(config, PRESETS[name])
  /\ nodes' = presetNodes(nodes, PRESETS[name])
  /\ configRef' = config'
  /\ chain' = [chain EXCEPT !.names = Append(@, name)]
  /\ UNCHANGED <<surface, server, loading, warning, status, edges, usedIds, resultVars,
                 netVars, pressed, clicks, edits, steps>>

NextPreset == \E name \in PresetNames : PresetChain(name)

SpecPreset == InitPreset /\ [][NextPreset]_vars

(***************************************************************************)
(* The direct-edit page with an exchange that always resolves: the promise *)
(* of a fetch settles whatever the operator does, and the event loop then  *)
(* runs the continuation of run that awaits it                             *)
(***************************************************************************)
InitLive ==
  /\ Init
  /\ surface = "workbench"

\* the fetch awaited by run settles and run executes to its end
Deliver(r, out) ==
  /\ surface = "workbench"
  /\ r \in requests
  /\ requests' = requests \ {r}
  /\ response' = [id |-> r.id, outcome |-> out]
  /\ runContinuation(out)
  /\ pressed' = Null
  /\ UNCHANGED <<surface, server, chain, config, configRef, preset, graphVars, sent, clicks,
                 edits, steps>>

\* the operator edits the number inputs and presses the button; the other
\* inputs change the Config in the same way and take no part in the exchange
NextLive ==
  \/ \E key \in {"window", "unmatched_penalty"}, text \in InputTexts :
        DirectEditNumber(key, text)
  \/ WorkbenchButton
  \/ \E r \in requests, out \in Outcomes : Deliver(r, out)

SpecLive ==
  /\ InitLive
  /\ [][NextLive]_vars
  /\ WF_requests(\E r \in requests, out \in Outcomes : Deliver(r, out))

(***************************************************************************)
(* Properties                                                              *)
(***************************************************************************)
\* the step is a press of the evaluate trigger of the page
TriggerStep == clicks' = clicks + 1

\* the graph the validator of the placed evaluate node reads
TriggerClosure == DataOf(nodes, "evaluate").onEvaluate

\* The onEvaluate of the placed evaluate node belongs to the render that
\* placed the node, and the nodes of that render never hold the evaluate
\* node: the validator it calls rejects, so the interactive surface never
\* dispatches a request and never raises its busy flag.
InteractiveNeverSends ==
  surface = "interactive" => sent = 0 /\ requests = {} /\ loading = FALSE

\* C2: on the direct-edit surface at most one evaluation request is in
\* flight at any time, the busy flag is up exactly while one is, and a press
\* of the trigger while the busy flag is up dispatches nothing.
C2_WorkbenchSingleFlight ==
  /\ [](surface = "workbench" =>
          /\ Cardinality(requests) <= 1
          /\ loading = (requests # {}))
  /\ [][(surface = "workbench" /\ TriggerStep /\ loading) =>
          (requests' = requests /\ sent' = sent)]_vars

\* C2 witness: two presses, the second while the first request was still in
\* flight, and one request dispatched.
C2_Witness ==
  /\ surface = "workbench"
  /\ clicks = 2
  /\ loading
  /\ sent = 1
  /\ Cardinality(requests) = 1
  /\ response = NoResponse

\* C3 (as claimed): a press of Run on a board that holds the evaluate node,
\* the edge input->gate and an edge into evaluate dispatches exactly one
\* request and raises the busy flag.
C3_ValidGraphIsSubmitted ==
  [][(surface = "interactive" /\ TriggerStep /\ isValidGraph(nodes, edges)) =>
       (/\ sent' = sent + 1
        /\ Cardinality(requests') = Cardinality(requests) + 1
        /\ loading' = TRUE)]_vars

\* C4: a press of Run whose validator rejects dispatches nothing, stores the
\* remediation message and leaves graph, Config and busy flag as they were.
C4_RejectedRunIsLocal ==
  [][(/\ surface = "interactive"
      /\ TriggerStep
      /\ ~isValidGraph(TriggerClosure.nodes, TriggerClosure.edges)) =>
       (/\ requests' = requests
        /\ sent' = sent
        /\ warning' = RemediationMessage
        /\ nodes' = nodes
        /\ edges' = edges
        /\ config' = config
        /\ configRef' = configRef
        /\ loading' = loading
        /\ loading' = FALSE)]_vars

\* C4 witness: Run was pressed on an evaluate node whose validator reads the
\* empty graph; the remediation message is shown and nothing was sent.
C4_Witness ==
  /\ surface = "interactive"
  /\ clicks >= 1
  /\ HasNode(nodes, "evaluate")
  /\ TriggerClosure.nodes = <<>>
  /\ TriggerClosure.edges = {}
  /\ warning = RemediationMessage
  /\ sent = 0
  /\ ~loading

\* C9: the board never holds two nodes of one kind.
C9_OneNodePerKind == \A k \in Kinds : CountOf(nodes, k) <= 1

\* C9 witness: a board that went through placement, connection, a config
\* mutation and a refused second placement, holding each of its kinds once.
C9_Witness ==
  /\ Len(nodes) >= 2
  /\ edges # {}
  /\ edits >= 1
  /\ pressed # Null
  /\ CountOf(nodes, pressed) = 1

\* C10: a placement gesture on the card of a kind that is on the board is
\* refused: the card reads "Already placed" and nodes (data included),
\* edges and Config stay as they were.
C10_DuplicateIsRefused ==
  [][\A k \in Kinds :
       (surface = "interactive" /\ pressed' = k /\ HasNode(nodes, k)) =>
         (/\ libraryCTA(k) = "Already placed"
          /\ nodes' = nodes
          /\ edges' = edges
          /\ config' = config
          /\ configRef' = configRef)]_vars

\* C10 witness: the card of a kind on the board was pressed and the board
\* still holds that kind.
C10_Witness ==
  /\ surface = "interactive"
  /\ pressed # Null
  /\ HasNode(nodes, pressed)
  /\ libraryCTA(pressed) = "Already placed"

\* the three conditions, stated on the graph itself
HasEvaluateNode == "evaluate" \in Ids(nodes)
HasInputGateEdge == \E e \in edges : e.source = "input" /\ e.target = "gate"
HasEdgeToEvaluate == \E e \in edges : e.target = "evaluate"

\* C5: the validator accepts a graph exactly when it holds an evaluate node,
\* an edge input->gate and an edge into evaluate; whatever else the graph
\* holds makes no difference.  The accepted call is the one that dispatches.
C5_ValidatorIff ==
  /\ isValidGraph(nodes, edges) =
       (HasEvaluateNode /\ HasInputGateEdge /\ HasEdgeToEvaluate)
  /\ clicks = 1 =>
       /\ (sent = 1) = (HasEvaluateNode /\ HasInputGateEdge /\ HasEdgeToEvaluate)
       /\ (warning = RemediationMessage) =
            ~(HasEvaluateNode /\ HasInputGateEdge /\ HasEdgeToEvaluate)

\* C5 witness: the graph {input, gate, evaluate} with the edges input->gate
\* and gate->evaluate was handed to the validator and accepted.
C5_Witness ==
  /\ clicks = 1
  /\ Ids(nodes) = {"input", "gate", "evaluate"}
  /\ edges = {[source |-> "input", target |-> "gate", targetHandle |-> Null],
              [source |-> "gate", target |-> "evaluate", targetHandle |-> Null]}
  /\ sent = 1
  /\ loading

\* C6 (as claimed): the body of a request that is dispatched equals the
\* Config of that moment, and the body of a request in flight stays as it
\* was dispatched.  (A JSON text is written here as the value it denotes.)
C6_BodyIsConfig ==
  [][/\ \A r \in requests' \ requests : r.body = config
     /\ \A r \in requests : \A q \in requests' : q.id = r.id => q.body = r.body
    ]_vars

\* the step delivers the outcome of a request to the handler that awaits it
SettleStep == response'.id # response.id

\* the failure text the page shows
StoredMessage == IF surface = "workbench" THEN error ELSE warning

\* C7 (as claimed): when a request fails, the stored message is the body
\* text of the engine when there is one and the generic text otherwise, and
\* the busy flag is cleared.
C7_BodyTextOrGeneric ==
  [][(SettleStep /\ response'.outcome.kind # "ok") =>
       (/\ StoredMessage' = failureMessageBodyOrGeneric(response'.outcome)
        /\ loading' = FALSE)]_vars

\* C7 (amended): when a request fails, the stored message is the message of
\* the error that ended the attempt when that message is not empty - the
\* body text of the engine for a non-success status, the runtime's own
\* message for an unparseable payload or a failed transport - and the
\* generic text otherwise; the busy flag is cleared.
C7_ErrorMessageOrGeneric ==
  [][(SettleStep /\ response'.outcome.kind # "ok") =>
       (/\ StoredMessage' =
             CASE response'.outcome.kind = "status" ->
                    IF response'.outcome.text = "" THEN GenericFailure
                    ELSE response'.outcome.text
               [] response'.outcome.kind = "unparseable" -> SyntaxErrorMessage
               [] response'.outcome.kind = "transport" -> FetchErrorMessage
        /\ loading' = FALSE)]_vars

\* C7 witness: a request ended in a failed transport; the message of the
\* rejection is shown and the busy flag is down.
C7_Witness ==
  /\ response.outcome.kind = "transport"
  /\ StoredMessage = FetchErrorMessage
  /\ requests = {}
  /\ ~loading

C11_AbsentKindIsPlaced ==
  [][\A k \in Kinds :
       (surface = "interactive" /\ ~HasNode(nodes, k)
          /\ (pressed' = k \/ HasNode(nodes', k))) =>
         (/\ HasNode(nodes', k)
          /\ pressed' # k
          /\ libraryCTA(k) = "Add to board")]_vars

\* C12: every edge of the board starts and ends at a node that is on the
\* board, after every step: a deletion takes the edges of the deleted node
\* with it and a connection is only drawn between nodes on the board.
C12_NoDanglingEdge ==
  \A e \in edges : HasNode(nodes, e.source) /\ HasNode(nodes, e.target)

\* C12 witness: three kinds were placed and connected, one of them has been
\* deleted, and the edge that is left joins the two nodes that are left.
C12_Witness ==
  /\ Cardinality(usedIds) = 3
  /\ Len(nodes) = 2
  /\ Cardinality(edges) = 1
  /\ steps = 6
  /\ clicks = 0
  /\ edits = 0
  /\ \A e \in edges : HasNode(nodes, e.source) /\ HasNode(nodes, e.target)

\* C13 (as claimed): the board never holds two edges with the same source
\* and the same target; connecting a pair that is already connected, through
\* whichever handle of the target, changes nothing.
C13_OneEdgePerPair ==
  \A e1 \in edges : \A e2 \in edges :
    (e1.source = e2.source /\ e1.target = e2.target) => e1 = e2

\* the step is a node-data update of the interactive surface
UpdateStep == surface = "interactive" /\ edits' = edits + 1 /\ preset' = preset

\* every node but `id` is as it was
OthersSame(id) ==
  /\ Len(nodes') = Len(nodes)
  /\ \A i \in 1..Len(nodes) :
       /\ nodes'[i].id = nodes[i].id
       /\ nodes[i].id # id => nodes'[i] = nodes[i]

\* C14: a node-data update changes its own Config field and nothing else:
\* window for the gate's window, require_same_side for its checkbox, the
\* one cap hard_limits[k] for a limits slider, unmatched_penalty for the
\* penalty.  Weights, edges and the other nodes' data stay, and a step that
\* is no mutation leaves the Config as it is.
C14_UpdateChangesOwnField ==
  [][/\ edits' = edits => config' = config
     /\ UpdateStep =>
          /\ edges' = edges
          /\ config'.weights = config.weights
          /\ \/ /\ HasNode(nodes, "gate")
                /\ DataOf(nodes', "gate").window # DataOf(nodes, "gate").window
                /\ DataOf(nodes', "gate").requireSame = DataOf(nodes, "gate").requireSame
                /\ config' = [config EXCEPT !.window = DataOf(nodes', "gate").window]
                /\ OthersSame("gate")
             \/ /\ HasNode(nodes, "gate")
                /\ DataOf(nodes', "gate").requireSame # DataOf(nodes, "gate").requireSame
                /\ DataOf(nodes', "gate").window = DataOf(nodes, "gate").window
                /\ config' = [config EXCEPT !.require_same_side =
                                              DataOf(nodes', "gate").requireSame]
                /\ OthersSame("gate")
             \/ /\ HasNode(nodes, "limits")
                /\ \E k \in LimitKeys :
                     /\ DataOf(nodes', "limits")[k] # DataOf(nodes, "limits")[k]
                     /\ \A j \in LimitKeys \ {k} :
                          DataOf(nodes', "limits")[j] = DataOf(nodes, "limits")[j]
                     /\ config' = [config EXCEPT !.hard_limits[k] =
                                                   DataOf(nodes', "limits")[k]]
                /\ OthersSame("limits")
             \/ /\ HasNode(nodes, "unmatched")
                /\ DataOf(nodes', "unmatched").penalty # DataOf(nodes, "unmatched").penalty
                /\ config' = [config EXCEPT !.unmatched_penalty =
                                              DataOf(nodes', "unmatched").penalty]
                /\ OthersSame("unmatched")
    ]_vars

\* C14 witness: the dx slider of the limits node was moved to 6; Config holds
\* dx = 6 next to the untouched clock and cost caps.
C14_Witness ==
  /\ surface = "interactive"
  /\ edits = 1
  /\ preset = "Balanced"
  /\ HasNode(nodes, "limits")
  /\ DataOf(nodes, "limits").dx = "6"
  /\ config.hard_limits = [dx |-> "6", clock |-> "3", cost |-> "12"]
  /\ config.weights = GraphConfig0.weights

\* bundle b laid over bundle a, b's keys winning
BundleMerge(a, b) ==
  [window |-> b.window,
   unmatched_penalty |-> b.unmatched_penalty,
   weights |-> [k \in DOMAIN a.weights \cup DOMAIN b.weights |->
                  IF k \in DOMAIN b.weights THEN b.weights[k] ELSE a.weights[k]],
   hard_limits |-> [k \in DOMAIN a.hard_limits \cup DOMAIN b.hard_limits |->
                      IF k \in DOMAIN b.hard_limits THEN b.hard_limits[k]
                      ELSE a.hard_limits[k]]]

\* Config c after one merge of bundle p: window and unmatched_penalty
\* replaced, weights and hard_limits merged key by key, the rest kept
OneMerge(c, p) ==
  [window |-> p.window,
   require_same_side |-> c.require_same_side,
   unmatched_penalty |-> p.unmatched_penalty,
   weights |-> [k \in DOMAIN c.weights \cup DOMAIN p.weights |->
                  IF k \in DOMAIN p.weights THEN p.weights[k] ELSE c.weights[k]],
   hard_limits |-> [k \in DOMAIN c.hard_limits \cup DOMAIN p.hard_limits |->
                      IF k \in DOMAIN p.hard_limits THEN p.hard_limits[k]
                      ELSE c.hard_limits[k]]]

\* C15: one preset is one merge; preset A and then preset B give the Config
\* of one merge of (B laid over A); Strict then Lenient ends with Lenient's
\* caps and differs from Lenient then Strict.
C15_PresetsCompose ==
  LET n == chain.names
  IN  /\ Len(n) = 1 => config = OneMerge(chain.base, PRESETS[n[1]])
      /\ Len(n) = 2 =>
           config = OneMerge(chain.base, BundleMerge(PRESETS[n[1]], PRESETS[n[2]]))
      /\ n = <<"Strict", "Lenient">> =>
           /\ config.hard_limits = [dx |-> "7", clock |-> "4", cost |-> "18"]
           /\ config # OneMerge(chain.base,
                                BundleMerge(PRESETS["Lenient"], PRESETS["Strict"]))

\* C15 witness: Strict and then Lenient were applied to a Config whose dx
\* cap had been set to 6; the caps are Lenient's.
C15_Witness ==
  /\ chain.names = <<"Strict", "Lenient">>
  /\ chain.base.hard_limits.dx = "6"
  /\ config.hard_limits = PRESETS["Lenient"].hard_limits
  /\ config.window = "7"

\* C16: on the interactive surface the data of every node on the board
\* equals the Config fields it stands for: the gate's window and requireSame,
\* the three caps of limits, the penalty of unmatched.
C16_NodeDataIsConfig ==
  surface = "interactive" =>
    \A i \in 1..Len(nodes) :
      LET n == nodes[i]
      IN  /\ n.id = "gate" =>
               /\ n.data.window = config.window
               /\ n.data.requireSame = config.require_same_side
          /\ n.id = "limits" =>
               \A k \in LimitKeys : n.data[k] = config.hard_limits[k]
          /\ n.id = "unmatched" => n.data.penalty = config.unmatched_penalty

\* C16 witness: the Lenient preset was applied and the gate and limits nodes
\* on the board show Lenient's window and caps, as Config does.
C16_Witness ==
  /\ surface = "interactive"
  /\ preset = "Lenient"
  /\ HasNode(nodes, "gate")
  /\ HasNode(nodes, "limits")
  /\ DataOf(nodes, "gate").window = "7"
  /\ DataOf(nodes, "limits").cost = "18"
  /\ config.window = "7"
  /\ config.hard_limits.cost = "18"

\* the five top-level fields of the Config schema
SchemaFields ==
  {"window", "require_same_side", "weights", "unmatched_penalty", "hard_limits"}

\* C17 (as claimed): the body of every evaluation request has exactly the
\* five top-level fields of the schema.
C17_BodyHasFiveFields == \A r \in requests : DOMAIN r.body = SchemaFields

\* a number field holds a number
HoldsNumber(v) == v # NaN /\ v # Null

\* C18 (as claimed): in every state the Config is fully populated: window,
\* require_same_side, unmatched_penalty, every weights key and the three
\* hard_limits keys are present and hold a value.
C18_ConfigFullyPopulated ==
  /\ SchemaFields \subseteq DOMAIN config
  /\ HoldsNumber(config.window)
  /\ config.require_same_side \in BOOLEAN
  /\ HoldsNumber(config.unmatched_penalty)
  /\ WeightKeys \subseteq DOMAIN config.weights
  /\ \A k \in WeightKeys : HoldsNumber(config.weights[k])
  /\ LimitKeys \subseteq DOMAIN config.hard_limits
  /\ \A k \in LimitKeys : HoldsNumber(config.hard_limits[k])

\* C19: the deletion of a node leaves the Config (and the copy the next
\* request is serialised from) as it was; the values set through the
\* deleted node stay.
C19_RemovalKeepsConfig ==
  [][(surface = "interactive" /\ Len(nodes') < Len(nodes)) =>
       (config' = config /\ configRef' = configRef)]_vars

\* C19 witness: the gate's window was set to 9 and the gate was deleted;
\* Config still holds window = 9, and so does the copy a request would send.
C19_Witness ==
  /\ surface = "interactive"
  /\ "gate" \in usedIds
  /\ ~HasNode(nodes, "gate")
  /\ config.window = "9"
  /\ configRef.window = "9"
  /\ preset = "Balanced"

\* the step applies a preset
PresetStep == preset' # preset

\* C20: a preset changes no field its bundle does not define:
\* require_same_side and the gate's requireSame stay, no key of Config, of
\* weights or of hard_limits appears or disappears and a key the bundle
\* lacks keeps its value; the nodes on the board are the same nodes in the
\* same order, the data of the input and evaluate nodes and the edges stay.
C20_PresetKeepsTheRest ==
  [][PresetStep =>
       LET p == PRESETS[preset']
       IN  /\ config'.require_same_side = config.require_same_side
           /\ DOMAIN config' = DOMAIN config
           /\ DOMAIN config'.weights = DOMAIN config.weights
           /\ DOMAIN config'.hard_limits = DOMAIN config.hard_limits
           /\ \A k \in DOMAIN config.weights \ DOMAIN p.weights :
                config'.weights[k] = config.weights[k]
           /\ \A k \in DOMAIN config.hard_limits \ DOMAIN p.hard_limits :
                config'.hard_limits[k] = config.hard_limits[k]
           /\ Len(nodes') = Len(nodes)
           /\ \A i \in 1..Len(nodes) :
                /\ nodes'[i].id = nodes[i].id
                /\ DOMAIN nodes'[i].data = DOMAIN nodes[i].data
                /\ nodes[i].id \in {"input", "evaluate"} => nodes'[i] = nodes[i]
                /\ nodes[i].id = "gate" =>
                     nodes'[i].data.requireSame = nodes[i].data.requireSame
           /\ edges' = edges
           /\ usedIds' = usedIds]_vars

\* C20 witness: a preset was applied to a board whose gate had the same-side
\* box ticked; the box and Config.require_same_side are still set, the five
\* nodes and the two edges are still there.
C20_Witness ==
  /\ Len(chain.names) >= 1
  /\ chain.base.require_same_side = TRUE
  /\ config.require_same_side = TRUE
  /\ DataOf(nodes, "gate").requireSame = TRUE
  /\ Len(nodes) = 5
  /\ Cardinality(edges) = 2
  /\ config.window = PRESETS[preset].window

\* C21: on the direct-edit surface a press of the trigger while the busy
\* flag is down starts an attempt whatever the Config holds: the busy flag
\* goes up, the error message is cleared and exactly one request, carrying
\* the serialised Config, is in flight.
C21_WorkbenchRunsUnvalidated ==
  [][(surface = "workbench" /\ TriggerStep /\ ~loading) =>
       (/\ loading' = TRUE
        /\ error' = Null
        /\ sent' = sent + 1
        /\ requests' = requests \cup {[id |-> sent', body |-> stringify(config)]}
        /\ Cardinality(requests') = 1)]_vars

\* C21 witness: the window input was emptied and the trigger pressed after
\* a failed attempt; the request is in flight, the old error message is gone.
C21_Witness ==
  /\ surface = "workbench"
  /\ config.window = NaN
  /\ response.id = 1
  /\ response.outcome.kind = "status"
  /\ sent = 2
  /\ loading
  /\ error = Null
  /\ Cardinality(requests) = 1

\* C22: requests are sent by triggers only, one per trigger: the number of
\* requests sent never exceeds the number of triggers fired, and every step
\* that sends a request is a trigger step that sends exactly one; the step
\* that resolves a request, failed or not, sends none.
C22_OneRequestPerTrigger ==
  /\ [](sent <= clicks)
  /\ [][(sent' # sent) => (TriggerStep /\ sent' = sent + 1)]_vars
  /\ [][SettleStep => (sent' = sent /\ requests' \subseteq requests)]_vars

\* C22 witness: the one request of the one trigger has resolved in Failed,
\* other steps followed, and no further request was sent.
C22_Witness ==
  /\ surface = "workbench"
  /\ response.id = 1
  /\ response.outcome.kind = "transport"
  /\ error = FetchErrorMessage
  /\ clicks = 1
  /\ sent = 1
  /\ requests = {}
  /\ edits = 1
  /\ steps >= 3

\* C24: in every reachable state the busy flag of the page is up exactly
\* when a request of that page is in flight, and at most one is.
C24_BusyIffInFlight ==
  /\ loading = (requests # {})
  /\ Cardinality(requests) <= 1

\* C24 witness: an attempt is in flight with the busy flag up after an
\* earlier attempt resolved and a press of the disabled button was lost.
C24_Witness ==
  /\ surface = "workbench"
  /\ loading
  /\ Cardinality(requests) = 1
  /\ response.id = 1
  /\ sent = 2
  /\ clicks = 3

\* C24 witness of the other half: the attempt has resolved, no request is
\* in flight and the busy flag is down again.
C24_IdleAgain ==
  /\ surface = "workbench"
  /\ ~loading
  /\ requests = {}
  /\ response.id = 2

\* C25: on the direct-edit surface the stored KPIs and artifact references
\* change only in the step that resolves a request in success, which
\* replaces them with those of the response; a step that resolves a request
\* in failure stores the error message and nothing else, and a step that
\* starts an attempt clears the error message and leaves the stored KPIs and
\* artifact references alone.
C25_FailureKeepsLastResult ==
  [][surface = "workbench" =>
       /\ (SettleStep /\ response'.outcome.kind = "ok") =>
            (/\ kpis' = response'.outcome.data.kpis
             /\ artifacts'.matches_path = response'.outcome.data.matches_path
             /\ artifacts'.families_path = response'.outcome.data.families_path
             /\ artifacts'.segment_risk_path =
                  response'.outcome.data.segment_risk_path)
       /\ ~(SettleStep /\ response'.outcome.kind = "ok") =>
            UNCHANGED <<kpis, artifacts>>
       /\ (SettleStep /\ response'.outcome.kind # "ok") =>
            error' = failureMessage(response'.outcome)
       /\ (TriggerStep /\ ~loading) => error' = Null]_vars

\* C25 witness: a second attempt failed after a first one succeeded; the
\* error message is shown next to the KPIs and artifacts of the first.
C25_Witness ==
  /\ surface = "workbench"
  /\ response.id = 2
  /\ response.outcome.kind = "status"
  /\ error = "bad weights"
  /\ kpis = "kpisA"
  /\ artifacts.matches_path = "/a/out/matches.csv"
  /\ ~loading

\* C25 witness of the new attempt: a third attempt is in flight, the error
\* message of the second is cleared and the KPIs of the first are still kept.
C25_NewAttempt ==
  /\ surface = "workbench"
  /\ response.id = 2
  /\ response.outcome.kind = "status"
  /\ sent = 3
  /\ loading
  /\ error = Null
  /\ kpis = "kpisA"

\* the attempts the step budget allows
Attempts == 1 .. MaxSteps

\* C23: provided every request eventually resolves, every attempt that has
\* raised the busy flag reaches the state where its own request has resolved,
\* in success or in failure of any kind, no request is in flight and the
\* busy flag is down; and whenever the busy flag is down the next press of
\* the trigger starts a new attempt with a request of its own.
C23_EveryAttemptEnds ==
  /\ \A i \in Attempts :
       (sent = i /\ loading) ~>
         (/\ response.id = i
          /\ response.outcome.kind \in {"ok", "status", "unparseable", "transport"}
          /\ requests = {}
          /\ ~loading)
  /\ [][(TriggerStep /\ ~loading) =>
          (loading' /\ sent' = sent + 1 /\ \E r \in requests' : r.id = sent')
       ]_<<clicks, loading, sent, requests>>

\* C23 witness: two attempts ended in failures of different kinds and the
\* page is idle again, its busy flag down.
C23_Witness ==
  /\ surface = "workbench"
  /\ response.id = 2
  /\ response.outcome.kind = "unparseable"
  /\ error = SyntaxErrorMessage
  /\ sent = 2
  /\ requests = {}
  /\ ~loading

\* the endpoint has answered a request
Served == "reply" \in DOMAIN server.last

\* the engine of the last request was started and exited with status 0
EngineSucceeded ==
  /\ server.last.result.error = Null
  /\ server.last.result.status = "0"

\* C26: the endpoint answers with success, KPIs and the three paths, only
\* when the engine was started and exited with status 0; when the engine
\* could not be started or did not exit with status 0 the answer has status
\* 500 and a body with a non-empty error message.
C26_SuccessOnlyAfterExitZero ==
  Served =>
    /\ (server.last.reply.status = 200) =>
         (/\ EngineSucceeded
          /\ DOMAIN server.last.reply.body =
               {"kpis", "families_path", "segment_risk_path", "matches_path"})
    /\ ~EngineSucceeded =>
         (/\ server.last.reply.status = 500
          /\ DOMAIN server.last.reply.body = {"error"}
          /\ server.last.reply.body.error \notin {"", Null})

\* C26 witness: after a request that was answered with success, the engine
\* exits with status 1 and an empty stderr; the answer is 500 with the
\* generic message although KPIs are loaded.
C26_Witness ==
  /\ Served
  /\ server.cache = "kpisA"
  /\ server.last.result.status = "1"
  /\ server.last.result.stderr = ""
  /\ server.last.reply.status = 500
  /\ server.last.reply.body.error = GenericFailure

\* C26 witness of the success side: an engine that exited with status 0 is
\* answered with status 200.
C26_Success ==
  /\ Served
  /\ EngineSucceeded
  /\ server.last.reply.status = 200

=============================================================================
